---- MODULE Spec2Model ----
(***************************************************************************)
(* Model of the stock tracker application: the App component's state and   *)
(* handlers (tracker list, busy flag, banner error, credential, settings   *)
(* prompt, outstanding refresh round-trips) and the price ingestion        *)
(* service fetchStockPrices.                                               *)
(*                                                                         *)
(* JavaScript values that are "number | null | undefined" are modelled as  *)
(* tagged records [t, v] so that null, undefined and numbers stay          *)
(* distinct; optional strings use the string Undefined.                    *)
(***************************************************************************)
EXTENDS Integers, Sequences, FiniteSets, TLC

VARIABLES
    stocks,          \* App state: StockTracker[] (newest first)
    isLoading,       \* App state: busy flag
    error,           \* App state: banner message or NoError
    apiKey,          \* App state: credential string
    isSettingsOpen,  \* App state: settings prompt shown
    mounted,         \* whether the first render's effects have run
    inflight,        \* refreshPrices calls suspended at the await
    now,             \* Date.now()
    ticks,           \* number of clock advances so far
    nextId,          \* number of ids handed out by crypto.randomUUID()
    started,         \* number of round-trips started so far
    last,            \* the handler that ran last, with its inputs and the list before it
    sortBy,          \* App state: the sort mode of the two displayed groups
    attempts,        \* per tracker id, how the fetch attempt that settled last for it ended
    fetch            \* a direct call of fetchStockPrices: position, input, output

vars == <<stocks, isLoading, error, apiKey, isSettingsOpen, mounted,
          inflight, now, ticks, nextId, started, last, sortBy, attempts, fetch>>

appVars == <<stocks, isLoading, error, apiKey, isSettingsOpen, mounted,
             inflight, now, ticks, nextId, started, last, sortBy, attempts>>

----------------------------------------------------------------------------
(* Bounds of the model *)

MaxStocks == 2
MaxInflight == 2
MaxTicks == 1
MaxIds == 2
MaxSymbols == 2
MaxRequests == 2

----------------------------------------------------------------------------
(* Program constants *)

StaleMs == 3600000

MsgNotFound == "Symbol not found or data unavailable"
MsgUpdateFailed == "Update failed"
MissingKey == "missingKey"
ErrorUpdate == "errorUpdate"

\* enum SortOption
ADDED_DESC == "Newest"
PROGRESS_DESC == "Closest to Target"
PROGRESS_ASC == "Furthest from Target"
SortOptions == {ADDED_DESC, PROGRESS_DESC, PROGRESS_ASC}

----------------------------------------------------------------------------
(* JavaScript values *)

Undefined == "undefined"
NoError == "null"

Null == [t |-> "null", v |-> 0]
Undef == [t |-> "undefined", v |-> 0]
Num(n) == [t |-> "num", v |-> n]

\* the string that spells the number n
Str(n) == [t |-> "str", v |-> n]

IsNum(x) == x.t = "num"

\* x || 0 for a number | null | undefined
OrZero(x) == IF IsNum(x) /\ x.v # 0 THEN x.v ELSE 0

\* x || 0 with the value kept as it is: a non-empty string is truthy
OrNumZero(x) == IF (IsNum(x) /\ x.v # 0) \/ x.t = "str" THEN x ELSE Num(0)

\* the number a comparison with > converts x to
ToNumber(x) == x.v

\* s1 || s2 for optional strings
OrStr(s1, s2) == IF s1 # Undefined /\ s1 # "" THEN s1 ELSE s2

\* the clock when the page is opened: later than one staleness window after 0
Epoch == 2 * StaleMs

----------------------------------------------------------------------------
(* Input alphabets *)

Symbols == {"AAPL", "BTC"}
RawSymbols == {"aapl", "AAPL", "BTC"}
ResponseKeys == {"AAPL", "aapl", "BTC"}
CompanyNames == {Undefined, "Apple Inc."}
ApiKeys == {"", "key1"}
NaN == [t |-> "nan", v |-> 0]

\* String.prototype.toUpperCase on the strings of the model
ToUpperCase(s) ==
    CASE s = "aapl" -> "AAPL"
      [] s = "btc" -> "BTC"
      [] OTHER -> s

RECURSIVE SeqsUpTo(_, _)
SeqsUpTo(S, n) ==
    IF n = 0 THEN {<<>>}
    ELSE LET shorter == SeqsUpTo(S, n - 1)
         IN shorter \cup {Append(q, x) : q \in shorter, x \in S}

IsDistinct(q) == \A i, j \in DOMAIN q : i # j => q[i] # q[j]

SymbolLists == SeqsUpTo(Symbols, MaxSymbols)

----------------------------------------------------------------------------
(* The remote response as fetchStockPrices sees it.                        *)
(*   kind "json": JSON.parse succeeds with an object (entries: its         *)
(*                key/value pairs in text order; a non-object value other  *)
(*                than null behaves as no entries)                         *)
(*   kind "null": JSON.parse succeeds with null                            *)
(*   kind "text": JSON.parse throws; entries are the "KEY": {...}          *)
(*                fragments of the text in text order                      *)
(* chunks: groundingMetadata.groundingChunks, uri Undefined = no web data  *)

MaxEntries == 2

JsonPrices == {Undef, Num(150), Num(0 - 5), Str(150)}
TextPrices == {Undef, Num(150), NaN}

JsonFragments == [key : ResponseKeys, price : JsonPrices, name : CompanyNames]
TextFragments == [key : ResponseKeys, price : TextPrices, name : CompanyNames]

NoWebChunk == [uri |-> Undefined, title |-> Undefined]
WebChunk == [uri |-> "https://source.example", title |-> "Source"]
UntitledChunk == [uri |-> "https://source.example", title |-> Undefined]
ChunkLists == {<<>>, <<NoWebChunk, WebChunk>>, <<UntitledChunk>>}

Responses ==
    [kind : {"json"}, entries : SeqsUpTo(JsonFragments, MaxEntries), chunks : ChunkLists]
    \cup [kind : {"text"}, entries : SeqsUpTo(TextFragments, MaxEntries), chunks : ChunkLists]
    \cup [kind : {"null"}, entries : {<<>>}, chunks : ChunkLists]

----------------------------------------------------------------------------
(* fetchStockPrices *)

NoEntry == [has |-> FALSE, price |-> Undef, name |-> Undefined]

\* data[sym] after a successful JSON.parse: own key sym, the last duplicate wins
JsonLookup(entries, sym) ==
    LET idx == {i \in DOMAIN entries : entries[i].key = sym}
    IN IF idx = {} THEN NoEntry
       ELSE LET i == CHOOSE i \in idx : \A j \in idx : j <= i
            IN [has |-> TRUE, price |-> entries[i].price, name |-> entries[i].name]

\* priceRegex: "SYM" : { ... "price" : ([0-9.]+) ... }, case-insensitive
PriceRegexMatches(f, sym) ==
    /\ ToUpperCase(f.key) = ToUpperCase(sym)
    /\ \/ f.price.t = "nan"
       \/ IsNum(f.price) /\ f.price.v >= 0

\* nameRegex: "SYM" : { ... "name" : "([^"]+)", case-insensitive
NameRegexMatches(f, sym) ==
    /\ ToUpperCase(f.key) = ToUpperCase(sym)
    /\ f.name # Undefined /\ f.name # ""

\* cleanText.match(priceRegex): the leftmost match, 0 when there is none
PriceMatch(entries, sym) ==
    LET idx == {i \in DOMAIN entries : PriceRegexMatches(entries[i], sym)}
    IN IF idx = {} THEN 0 ELSE CHOOSE i \in idx : \A j \in idx : i <= j

\* cleanText.match(nameRegex): the leftmost match, 0 when there is none
NameMatch(entries, sym) ==
    LET idx == {i \in DOMAIN entries : NameRegexMatches(entries[i], sym)}
    IN IF idx = {} THEN 0 ELSE CHOOSE i \in idx : \A j \in idx : i <= j

\* data[sym] after the regex fallback
RegexLookup(entries, sym) ==
    LET m == PriceMatch(entries, sym)
        n == NameMatch(entries, sym)
    IN IF m = 0 THEN NoEntry
       ELSE [has |-> TRUE,
             price |-> entries[m].price,
             name |-> IF n = 0 THEN sym ELSE entries[n].name]

DataLookup(resp, sym) ==
    IF resp.kind = "json" THEN JsonLookup(resp.entries, sym)
    ELSE RegexLookup(resp.entries, sym)

\* groundingChunks.find(c => c.web?.uri)
FirstWebChunk(chunks) ==
    LET idx == {i \in DOMAIN chunks : chunks[i].uri # Undefined /\ chunks[i].uri # ""}
    IN IF idx = {} THEN NoWebChunk
       ELSE chunks[CHOOSE i \in idx : \A j \in idx : i <= j]

\* one element of symbols.map(sym => ...)
ResultFor(resp, sym) ==
    LET entry == DataLookup(resp, sym)
        src == FirstWebChunk(resp.chunks)
    IN [symbol |-> sym,
        price |-> OrNumZero(entry.price),
        companyName |-> OrStr(entry.name, sym),
        sourceUrl |-> src.uri,
        sourceTitle |-> src.title]

\* data is null: data[sym] raises a TypeError, which the outer catch rethrows
FetchThrows(symbols, resp) == resp.kind = "null" /\ Len(symbols) > 0

\* the value fetchStockPrices resolves with when it does not throw
fetchStockPrices(symbols, resp) ==
    [i \in DOMAIN symbols |-> ResultFor(resp, symbols[i])]

----------------------------------------------------------------------------
(* A direct call of fetchStockPrices, step by step *)

NoResponse == [kind |-> "none", entries |-> <<>>, chunks |-> <<>>]
RejectCauses == {"timeout", "rejected"}

FetchIdle ==
    [pc |-> "idle", symbols |-> <<>>, response |-> NoResponse, results |-> <<>>,
     apiCalls |-> 0, timers |-> 0]

\* a fetchStockPrices without the empty-list return
FetchCall_NoEarlyReturn(symbols) ==
    /\ fetch.pc = "idle"
    /\ fetch' = [fetch EXCEPT !.pc = "awaiting", !.symbols = symbols,
                              !.timers = @ + 1, !.apiCalls = @ + 1]
    /\ UNCHANGED appVars

\* lines 133-160: the empty-list return, else the timer and the remote call
FetchCall(symbols) ==
    /\ fetch.pc = "idle"
    /\ fetch' = IF Len(symbols) = 0
                THEN [fetch EXCEPT !.pc = "returned", !.symbols = symbols]
                ELSE [fetch EXCEPT !.pc = "awaiting", !.symbols = symbols,
                                   !.timers = @ + 1, !.apiCalls = @ + 1]
    /\ UNCHANGED appVars

\* lines 163-223: the remote call wins the race
FetchRespond(resp) ==
    /\ fetch.pc = "awaiting"
    /\ fetch' = IF FetchThrows(fetch.symbols, resp)
                THEN [fetch EXCEPT !.pc = "thrown", !.response = resp]
                ELSE [fetch EXCEPT !.pc = "returned", !.response = resp,
                                   !.results = fetchStockPrices(fetch.symbols, resp)]
    /\ UNCHANGED appVars

\* lines 150-152, 225-228: the timer wins the race, or the remote call rejects
FetchReject(why) ==
    /\ fetch.pc = "awaiting"
    /\ fetch' = [fetch EXCEPT !.pc = "thrown", !.response = [NoResponse EXCEPT !.kind = why]]
    /\ UNCHANGED appVars

----------------------------------------------------------------------------
(* Trackers *)

StartTargets == {<<100, 200>>}

\* a form that stores the symbol as typed
NewTracker_AsTyped(id, rawSymbol, startPrice, targetPrice) ==
    [id |-> id,
     symbol |-> rawSymbol,
     companyName |-> Undefined,
     startPrice |-> startPrice,
     targetPrice |-> targetPrice,
     currentPrice |-> Null,
     lastUpdated |-> Null,
     sourceUrl |-> Undefined,
     sourceTitle |-> Undefined,
     isCompleted |-> FALSE,
     errorMessage |-> Undefined]

\* AddTrackerForm.handleSubmit: the tracker handed to onAdd
NewTracker(id, rawSymbol, startPrice, targetPrice) ==
    [id |-> id,
     symbol |-> ToUpperCase(rawSymbol),
     companyName |-> Undefined,
     startPrice |-> startPrice,
     targetPrice |-> targetPrice,
     currentPrice |-> Null,
     lastUpdated |-> Null,
     sourceUrl |-> Undefined,
     sourceTitle |-> Undefined,
     isCompleted |-> FALSE,
     errorMessage |-> Undefined]

\* a tracker list an earlier session left in localStorage: one resolved tracker
\* whose last fetch is exactly one hour old when the page is opened
PersistedTracker ==
    [NewTracker(0, "AAPL", 100, 200) EXCEPT
        !.companyName = "Apple Inc.",
        !.currentPrice = Num(150),
        !.lastUpdated = Num(Epoch - StaleMs),
        !.sourceUrl = WebChunk.uri,
        !.sourceTitle = WebChunk.title]

PersistedLists == {<<>>, <<PersistedTracker>>}

InSeq(x, q) == \E i \in DOMAIN q : q[i] = x

\* Array.from(new Set(list)): first occurrences, in order
RECURSIVE Dedupe(_)
Dedupe(q) ==
    IF q = <<>> THEN <<>>
    ELSE LET front == Dedupe(SubSeq(q, 1, Len(q) - 1))
             x == q[Len(q)]
         IN IF InSeq(x, front) THEN front ELSE Append(front, x)

SymbolsOf(targets) == Dedupe([i \in DOMAIN targets |-> targets[i].symbol])
IdsOf(targets) == [i \in DOMAIN targets |-> targets[i].id]

RemoveAt(q, i) == SubSeq(q, 1, i - 1) \o SubSeq(q, i + 1, Len(q))

----------------------------------------------------------------------------
(* refreshPrices: the merge of a settled round-trip *)

\* results.find(r => r.symbol === stock.symbol)
FindResult(results, symbol) ==
    LET idx == {i \in DOMAIN results : results[i].symbol = symbol}
    IN IF idx = {} THEN <<>>
       ELSE <<results[CHOOSE i \in idx : \A j \in idx : i <= j]>>

\* a merge that forgets the symbol check of line 141
MergeResult_AllStocks(stock, symbols, results, t) ==
    LET found == FindResult(results, stock.symbol)
    IN IF found # <<>> /\ ToNumber(found[1].price) > 0
       THEN [stock EXCEPT
                !.currentPrice = found[1].price,
                !.companyName = OrStr(found[1].companyName, stock.companyName),
                !.lastUpdated = Num(t),
                !.sourceUrl = found[1].sourceUrl,
                !.sourceTitle = found[1].sourceTitle,
                !.errorMessage = Undefined]
       ELSE [stock EXCEPT
                !.lastUpdated = Num(t),
                !.errorMessage = MsgNotFound]

\* a merge that keeps the previous errorMessage on success
MergeResult_KeepsError(stock, symbols, results, t) ==
    IF ~InSeq(stock.symbol, symbols) THEN stock
    ELSE LET found == FindResult(results, stock.symbol)
         IN IF found # <<>> /\ ToNumber(found[1].price) > 0
            THEN [stock EXCEPT
                     !.currentPrice = found[1].price,
                     !.companyName = OrStr(found[1].companyName, stock.companyName),
                     !.lastUpdated = Num(t),
                     !.sourceUrl = found[1].sourceUrl,
                     !.sourceTitle = found[1].sourceTitle]
            ELSE [stock EXCEPT
                     !.lastUpdated = Num(t),
                     !.errorMessage = MsgNotFound]

\* a merge that resets the price of an unresolved symbol
MergeResult_ResetsPrice(stock, symbols, results, t) ==
    IF ~InSeq(stock.symbol, symbols) THEN stock
    ELSE LET found == FindResult(results, stock.symbol)
         IN IF found # <<>> /\ ToNumber(found[1].price) > 0
            THEN [stock EXCEPT
                     !.currentPrice = found[1].price,
                     !.companyName = OrStr(found[1].companyName, stock.companyName),
                     !.lastUpdated = Num(t),
                     !.sourceUrl = found[1].sourceUrl,
                     !.sourceTitle = found[1].sourceTitle,
                     !.errorMessage = Undefined]
            ELSE [stock EXCEPT
                     !.currentPrice = Null,
                     !.lastUpdated = Num(t),
                     !.errorMessage = MsgNotFound]

\* the callback of currentStocks.map on the success path
MergeResult(stock, symbols, results, t) ==
    IF ~InSeq(stock.symbol, symbols) THEN stock
    ELSE LET found == FindResult(results, stock.symbol)
         IN IF found # <<>> /\ ToNumber(found[1].price) > 0
            THEN [stock EXCEPT
                     !.currentPrice = found[1].price,
                     !.companyName = OrStr(found[1].companyName, stock.companyName),
                     !.lastUpdated = Num(t),
                     !.sourceUrl = found[1].sourceUrl,
                     !.sourceTitle = found[1].sourceTitle,
                     !.errorMessage = Undefined]
            ELSE [stock EXCEPT
                     !.lastUpdated = Num(t),
                     !.errorMessage = MsgNotFound]

\* a catch path that records the time but no errorMessage
MergeFailure_TimestampOnly(stock, symbols, t) ==
    IF InSeq(stock.symbol, symbols)
    THEN [stock EXCEPT !.lastUpdated = Num(t)]
    ELSE stock

\* a catch path that records the errorMessage but not the time
MergeFailure_NoTimestamp(stock, symbols, t) ==
    IF InSeq(stock.symbol, symbols)
    THEN [stock EXCEPT !.errorMessage = MsgUpdateFailed]
    ELSE stock

\* a catch path that writes back the completion flag the targets had when the
\* refresh started
MergeFailure_StartFlag(stock, symbols, t) ==
    IF InSeq(stock.symbol, symbols)
    THEN [stock EXCEPT !.lastUpdated = Num(t), !.errorMessage = MsgUpdateFailed,
                       !.isCompleted = FALSE]
    ELSE stock

\* a catch path that marks every tracker
MergeFailure_AllStocks(stock, symbols, t) ==
    [stock EXCEPT !.lastUpdated = Num(t), !.errorMessage = MsgUpdateFailed]

\* the callback of currentStocks.map on the catch path
MergeFailure(stock, symbols, t) ==
    IF InSeq(stock.symbol, symbols)
    THEN [stock EXCEPT !.lastUpdated = Num(t), !.errorMessage = MsgUpdateFailed]
    ELSE stock

----------------------------------------------------------------------------
(* The handler that ran last *)

NoReq == [kind |-> "none", symbols |-> <<>>, targets |-> <<>>]

\* no backup file was read
NoFile == [kind |-> "none", items |-> <<>>]

Last(op, req, results, before) ==
    [op |-> op, req |-> req, results |-> results, before |-> before, file |-> NoFile]

\* the ids a tracker may carry: those handed out here and one of another session
TrackerIds == 0..(MaxIds + 1)

NoAttempts == [id \in TrackerIds |-> "none"]

\* the attempts after a round-trip for symbols settled over list: "ok" for a
\* tracker whose symbol resolved to a price > 0, "failed" for the other
\* trackers whose symbol was requested
Attempted(list, symbols, results) ==
    [id \in TrackerIds |->
        IF \E k \in DOMAIN list : list[k].id = id /\ InSeq(list[k].symbol, symbols)
        THEN LET s == list[CHOOSE k \in DOMAIN list : list[k].id = id]
                 found == FindResult(results, s.symbol)
             IN IF found # <<>> /\ ToNumber(found[1].price) > 0 THEN "ok" ELSE "failed"
        ELSE attempts[id]]

----------------------------------------------------------------------------
(* refreshPrices up to the await, as called with credential key *)

Request(kind, targets) ==
    [kind |-> kind, symbols |-> SymbolsOf(targets), targets |-> IdsOf(targets)]

\* a refreshPrices without the credential check
Refused_Never(key) == FALSE

Refused(key) == key = ""

Starts(key, targets) == ~Refused(key) /\ Len(targets) > 0

RefreshPrices(key, kind, targets) ==
    IF Refused(key)
    THEN /\ error' = MissingKey
         /\ isSettingsOpen' = TRUE
         /\ UNCHANGED <<isLoading, inflight, started>>
    ELSE IF Len(targets) = 0
    THEN UNCHANGED <<error, isSettingsOpen, isLoading, inflight, started>>
    ELSE /\ isLoading' = TRUE
         /\ error' = NoError
         /\ inflight' = Append(inflight, Request(kind, targets))
         /\ started' = started + 1
         /\ UNCHANGED isSettingsOpen

\* the request that RefreshPrices suspends, NoReq when it returns early
Started(key, kind, targets) ==
    IF Starts(key, targets) THEN Request(kind, targets) ELSE NoReq

----------------------------------------------------------------------------
(* The automatic refresh effect, run after the first render and after each *)
(* render in which apiKey changed                                          *)

NotCompleted(s) == ~s.isCompleted

\* a staleness test that includes the boundary
IsStale_AtBoundary(s) == s.lastUpdated = Null \/ now - OrZero(s.lastUpdated) >= StaleMs

\* s.lastUpdated === null || (Date.now() - (s.lastUpdated || 0) > 3600000)
IsStale(s) == s.lastUpdated = Null \/ now - OrZero(s.lastUpdated) > StaleMs

\* toUpdate, or the empty list when the effect does not call refreshPrices
ToUpdate(key, list) ==
    LET activeStocks == SelectSeq(list, NotCompleted)
        needsUpdate == \E i \in DOMAIN activeStocks : IsStale(activeStocks[i])
    IN IF key # "" /\ needsUpdate /\ Len(activeStocks) > 0
       THEN SelectSeq(activeStocks, IsStale)
       ELSE <<>>

AutoRefresh(key, list) ==
    IF Len(ToUpdate(key, list)) > 0
    THEN RefreshPrices(key, "auto", ToUpdate(key, list))
    ELSE UNCHANGED <<error, isSettingsOpen, isLoading, inflight, started>>

----------------------------------------------------------------------------
(* Handlers *)

Init ==
    /\ stocks \in PersistedLists
    /\ apiKey \in {"", "key1"}
    /\ isLoading = FALSE
    /\ error = NoError
    /\ isSettingsOpen = FALSE
    /\ mounted = FALSE
    /\ inflight = <<>>
    /\ now = Epoch
    /\ ticks = 0
    /\ nextId = 0
    /\ started = 0
    /\ last = Last("init", NoReq, <<>>, <<>>)
    /\ sortBy = ADDED_DESC
    /\ attempts = NoAttempts
    /\ fetch = FetchIdle

\* the effects of the first render
Mount ==
    /\ ~mounted
    /\ mounted' = TRUE
    /\ AutoRefresh(apiKey, stocks)
    /\ last' = Last("mount", Started(apiKey, "auto", ToUpdate(apiKey, stocks)), <<>>, stocks)
    /\ UNCHANGED <<stocks, apiKey, now, ticks, nextId, fetch, sortBy, attempts>>

OpenSettings ==
    /\ mounted
    /\ ~isSettingsOpen
    /\ isSettingsOpen' = TRUE
    /\ last' = Last("openSettings", NoReq, <<>>, <<>>)
    /\ UNCHANGED <<stocks, isLoading, error, apiKey, mounted, inflight, now, ticks, nextId, started, fetch, sortBy, attempts>>

CloseSettings ==
    /\ mounted
    /\ isSettingsOpen
    /\ isSettingsOpen' = FALSE
    /\ last' = Last("closeSettings", NoReq, <<>>, <<>>)
    /\ UNCHANGED <<stocks, isLoading, error, apiKey, mounted, inflight, now, ticks, nextId, started, fetch, sortBy, attempts>>

\* handleSaveApiKey, then the automatic refresh effect of the new render
SaveApiKey(key) ==
    /\ mounted
    /\ isSettingsOpen
    /\ key # apiKey
    /\ Len(inflight) < MaxInflight
    /\ started < MaxRequests
    /\ apiKey' = key
    /\ AutoRefresh(key, stocks)
    /\ last' = Last("saveApiKey", Started(key, "auto", ToUpdate(key, stocks)), <<>>, stocks)
    /\ UNCHANGED <<stocks, mounted, now, ticks, nextId, fetch, sortBy, attempts>>

\* AddTrackerForm.handleSubmit, then handleAddStock
AddStock(rawSymbol, startPrice, targetPrice) ==
    LET newStock == NewTracker(nextId + 1, rawSymbol, startPrice, targetPrice)
    IN /\ mounted
       /\ Len(stocks) < MaxStocks
       /\ nextId < MaxIds
       /\ Len(inflight) < MaxInflight
       /\ started < MaxRequests
       /\ nextId' = nextId + 1
       /\ stocks' = <<newStock>> \o stocks
       /\ RefreshPrices(apiKey, "add", <<newStock>>)
       /\ last' = Last("add", Started(apiKey, "add", <<newStock>>), <<>>, stocks)
       /\ UNCHANGED <<apiKey, mounted, now, ticks, fetch, sortBy, attempts>>

HasId(id) == \E i \in DOMAIN stocks : stocks[i].id = id

DeleteStock(id) ==
    /\ mounted
    /\ HasId(id)
    /\ stocks' = SelectSeq(stocks, LAMBDA s : s.id # id)
    /\ last' = Last("delete", NoReq, <<>>, <<>>)
    /\ attempts' = [attempts EXCEPT ![id] = "none"]
    /\ UNCHANGED <<isLoading, error, apiKey, isSettingsOpen, mounted, inflight, now, ticks, nextId, started, fetch, sortBy>>

\* the card's button is disabled while the tracker shows an error
ToggleEnabled(s) == s.errorMessage = Undefined \/ s.errorMessage = ""

ToggleComplete(id) ==
    /\ mounted
    /\ \E i \in DOMAIN stocks : stocks[i].id = id /\ ToggleEnabled(stocks[i])
    /\ stocks' = [i \in DOMAIN stocks |->
                    IF stocks[i].id = id
                    THEN [stocks[i] EXCEPT !.isCompleted = ~stocks[i].isCompleted]
                    ELSE stocks[i]]
    /\ last' = Last("toggle", NoReq, <<>>, <<>>)
    /\ UNCHANGED <<isLoading, error, apiKey, isSettingsOpen, mounted, inflight, now, ticks, nextId, started, fetch, sortBy, attempts>>

\* the refresh-all button: refreshPrices()
ManualRefresh ==
    LET targets == SelectSeq(stocks, NotCompleted)
    IN /\ mounted
       /\ ~isLoading
       /\ Len(stocks) > 0
       /\ Len(inflight) < MaxInflight
       /\ started < MaxRequests
       /\ RefreshPrices(apiKey, "manual", targets)
       /\ last' = Last("manual", Started(apiKey, "manual", targets), <<>>, stocks)
       /\ UNCHANGED <<stocks, apiKey, mounted, now, ticks, nextId, fetch, sortBy, attempts>>

\* the responses a round-trip of the application may settle with
Quote(key, price, name) == [key |-> key, price |-> Num(price), name |-> name]

AppResponses ==
    {[kind |-> "json", entries |-> <<>>, chunks |-> <<>>],
     [kind |-> "json", entries |-> <<Quote("AAPL", 150, "Apple Inc.")>>, chunks |-> <<WebChunk>>],
     [kind |-> "json", entries |-> <<Quote("AAPL", 160, Undefined)>>, chunks |-> <<>>],
     [kind |-> "json", entries |-> <<Quote("AAPL", 0 - 5, "Apple Inc.")>>, chunks |-> <<WebChunk>>],
     [kind |-> "json", entries |-> <<Quote("BTC", 150, Undefined)>>, chunks |-> <<WebChunk>>],
     [kind |-> "text", entries |-> <<Quote("aapl", 160, "Apple Inc."), Quote("BTC", 160, Undefined)>>,
      chunks |-> <<>>]}

\* refreshPrices after the await: fetchStockPrices resolved
SettleOk(i, resp) ==
    /\ i \in DOMAIN inflight
    /\ ~FetchThrows(inflight[i].symbols, resp)
    /\ LET req == inflight[i]
           results == fetchStockPrices(req.symbols, resp)
       IN /\ stocks' = [k \in DOMAIN stocks |->
                          MergeResult(stocks[k], req.symbols, results, now)]
          /\ last' = Last("settleOk", req, results, stocks)
          /\ attempts' = Attempted(stocks, req.symbols, results)
    /\ isLoading' = FALSE
    /\ inflight' = RemoveAt(inflight, i)
    /\ UNCHANGED <<error, apiKey, isSettingsOpen, mounted, now, ticks, nextId, started, fetch, sortBy>>

\* a catch path without the finally block
SettleFail_StaysBusy(i) ==
    /\ i \in DOMAIN inflight
    /\ LET req == inflight[i]
       IN /\ stocks' = [k \in DOMAIN stocks |->
                          MergeFailure(stocks[k], req.symbols, now)]
          /\ last' = Last("settleFail", req, <<>>, stocks)
          /\ attempts' = Attempted(stocks, req.symbols, <<>>)
    /\ error' = ErrorUpdate
    /\ inflight' = RemoveAt(inflight, i)
    /\ UNCHANGED <<isLoading, apiKey, isSettingsOpen, mounted, now, ticks, nextId, started, fetch, sortBy>>

\* refreshPrices after the await: fetchStockPrices threw
SettleFail(i) ==
    /\ i \in DOMAIN inflight
    /\ LET req == inflight[i]
       IN /\ stocks' = [k \in DOMAIN stocks |->
                          MergeFailure(stocks[k], req.symbols, now)]
          /\ last' = Last("settleFail", req, <<>>, stocks)
          /\ attempts' = Attempted(stocks, req.symbols, <<>>)
    /\ error' = ErrorUpdate
    /\ isLoading' = FALSE
    /\ inflight' = RemoveAt(inflight, i)
    /\ UNCHANGED <<apiKey, isSettingsOpen, mounted, now, ticks, nextId, started, fetch, sortBy>>

----------------------------------------------------------------------------
(* handleImportFile: the onload callback of the FileReader *)

\* the id "" of a file item
EmptyString == [t |-> "empty", v |-> 0]

\* an element of the parsed array: an object with the fields of tracker s,
\* except for the three fields the validation reads
FileItem(id, symbol, startPrice, s) ==
    [shape |-> "object",
     id |-> id,
     symbol |-> symbol,
     startPrice |-> startPrice,
     companyName |-> s.companyName,
     targetPrice |-> s.targetPrice,
     currentPrice |-> s.currentPrice,
     lastUpdated |-> s.lastUpdated,
     sourceUrl |-> s.sourceUrl,
     sourceTitle |-> s.sourceTitle,
     isCompleted |-> s.isCompleted,
     errorMessage |-> s.errorMessage]

\* handleExport: JSON.stringify writes a tracker with all its fields
Exported(s) == FileItem(Num(s.id), s.symbol, Num(s.startPrice), s)

\* the element null
NullItem == [Exported(PersistedTracker) EXCEPT !.shape = "null"]

\* a tracker of another session, written by hand: a fetch timestamp with
\* neither a price nor an error
ForeignTracker ==
    [NewTracker(MaxIds + 1, "BTC", 100, 200) EXCEPT !.lastUpdated = Num(Epoch)]

ValidItems == {Exported(PersistedTracker), Exported(ForeignTracker)}

InvalidItems ==
    {NullItem,
     FileItem(Undef, "AAPL", Num(100), PersistedTracker),
     FileItem(EmptyString, "AAPL", Num(100), PersistedTracker),
     FileItem(Num(0), Undefined, Num(100), PersistedTracker),
     FileItem(Num(0), "", Num(100), PersistedTracker),
     FileItem(Num(0), "AAPL", Undef, PersistedTracker)}

ArrayFile(items) == [kind |-> "array", items |-> items]

\* contents of the selected file: text that is not JSON, JSON that is not an
\* array, and arrays of at most two elements
ImportFiles ==
    {[kind |-> "unparseable", items |-> <<>>],
     [kind |-> "object", items |-> <<>>],
     ArrayFile(<<>>),
     ArrayFile(<<Exported(ForeignTracker), Exported(PersistedTracker)>>)}
    \cup {ArrayFile(<<x>>) : x \in ValidItems \cup InvalidItems}
    \cup {ArrayFile(<<Exported(PersistedTracker), x>>) : x \in InvalidItems}
    \cup {ArrayFile(<<x, Exported(PersistedTracker)>>) : x \in InvalidItems}

\* item.id && item.symbol && item.startPrice !== undefined
ItemLooksLikeTracker(item) ==
    /\ item.id.t = "num"
    /\ item.symbol # Undefined /\ item.symbol # ""
    /\ item.startPrice.t # "undefined"

\* reading a property of null throws a TypeError
ItemThrows(item) == item.shape = "null"

\* parsedData.every(...), short-circuiting at the first element that fails
RECURSIVE EveryItem(_)
EveryItem(items) ==
    IF items = <<>> THEN "true"
    ELSE IF ItemThrows(Head(items)) THEN "throws"
    ELSE IF ~ItemLooksLikeTracker(Head(items)) THEN "false"
    ELSE EveryItem(Tail(items))

\* a validation that only reads the id
IsValid_IdOnly(file) ==
    /\ file.kind = "array"
    /\ \A i \in DOMAIN file.items : file.items[i].id.t = "num"

\* whether the callback reaches setStocks(parsedData)
IsValid(file) == file.kind = "array" /\ EveryItem(file.items) = "true"

\* the element as the list holds it
AsTracker(item) ==
    [id |-> item.id.v,
     symbol |-> item.symbol,
     companyName |-> item.companyName,
     startPrice |-> item.startPrice.v,
     targetPrice |-> item.targetPrice,
     currentPrice |-> item.currentPrice,
     lastUpdated |-> item.lastUpdated,
     sourceUrl |-> item.sourceUrl,
     sourceTitle |-> item.sourceTitle,
     isCompleted |-> item.isCompleted,
     errorMessage |-> item.errorMessage]

ImportFile(file) ==
    /\ mounted
    /\ IF IsValid(file)
       THEN /\ stocks' = [i \in DOMAIN file.items |-> AsTracker(file.items[i])]
            /\ attempts' = NoAttempts
       ELSE UNCHANGED <<stocks, attempts>>
    /\ last' = [Last("import", NoReq, <<>>, stocks) EXCEPT !.file = file]
    /\ UNCHANGED <<isLoading, error, apiKey, isSettingsOpen, mounted, inflight, now, ticks, nextId, started, fetch, sortBy>>

----------------------------------------------------------------------------
(* getSortedStocks: the order in which a group of trackers is displayed *)

\* the progress getProgress returns for a tracker without a price
NoPriceProgress == 0 - 9999

\* the number n / d, with a positive denominator
Fraction(n, d) == IF d < 0 THEN [n |-> 0 - n, d |-> 0 - d] ELSE [n |-> n, d |-> d]

\* getProgress, for a currentPrice that is null or a number
getProgress(s) ==
    IF s.currentPrice = Null THEN Fraction(NoPriceProgress, 1)
    ELSE LET total == s.targetPrice - s.startPrice
         IN IF total = 0 THEN Fraction(0, 1)
            ELSE Fraction((s.currentPrice.v - s.startPrice) * 100, total)

\* the sign of p - q
SignOfDifference(p, q) ==
    LET x == p.n * q.d - q.n * p.d
    IN IF x < 0 THEN 0 - 1 ELSE IF x > 0 THEN 1 ELSE 0

\* a comparator that ranks by progress in every mode
Compare_AlwaysProgress(a, b, mode) == SignOfDifference(getProgress(b), getProgress(a))

\* the sign of the comparator passed to sort
Compare(a, b, mode) ==
    IF mode = ADDED_DESC THEN 0
    ELSE IF mode = PROGRESS_DESC THEN SignOfDifference(getProgress(b), getProgress(a))
    ELSE IF mode = PROGRESS_ASC THEN SignOfDifference(getProgress(a), getProgress(b))
    ELSE 0

\* x placed behind the elements of sorted that do not compare greater than x
RECURSIVE InsertSorted(_, _, _)
InsertSorted(sorted, x, mode) ==
    IF sorted = <<>> THEN <<x>>
    ELSE IF Compare(Head(sorted), x, mode) <= 0
    THEN <<Head(sorted)>> \o InsertSorted(Tail(sorted), x, mode)
    ELSE <<x>> \o sorted

\* [...list].sort(comparator): Array.prototype.sort is stable
RECURSIVE getSortedStocks(_, _)
getSortedStocks(list, mode) ==
    IF list = <<>> THEN <<>>
    ELSE InsertSorted(getSortedStocks(SubSeq(list, 1, Len(list) - 1), mode),
                      list[Len(list)], mode)

IsCompleted(s) == s.isCompleted

activeStocks == getSortedStocks(SelectSeq(stocks, NotCompleted), sortBy)
completedStocks == getSortedStocks(SelectSeq(stocks, IsCompleted), sortBy)

\* the sort selector's onChange
SetSortBy(mode) ==
    /\ mounted
    /\ mode # sortBy
    /\ sortBy' = mode
    /\ last' = Last("setSortBy", NoReq, <<>>, <<>>)
    /\ UNCHANGED <<stocks, isLoading, error, apiKey, isSettingsOpen, mounted, inflight, now, ticks, nextId, started, fetch, attempts>>

TickSteps == {1}

Tick(d) ==
    /\ ticks < MaxTicks
    /\ now' = now + d
    /\ ticks' = ticks + 1
    /\ last' = Last("tick", NoReq, <<>>, <<>>)
    /\ UNCHANGED <<stocks, isLoading, error, apiKey, isSettingsOpen, mounted, inflight, nextId, started, fetch, sortBy, attempts>>

Next ==
    \/ Mount
    \/ OpenSettings
    \/ CloseSettings
    \/ \E key \in ApiKeys : SaveApiKey(key)
    \/ \E raw \in RawSymbols, st \in StartTargets : AddStock(raw, st[1], st[2])
    \/ \E id \in 0..MaxIds : DeleteStock(id)
    \/ \E id \in 0..MaxIds : ToggleComplete(id)
    \/ ManualRefresh
    \/ \E i \in 1..MaxInflight, resp \in AppResponses : SettleOk(i, resp)
    \/ \E i \in 1..MaxInflight : SettleFail(i)
    \/ \E d \in TickSteps : Tick(d)

Spec == Init /\ [][Next]_vars

\* The same handlers with fewer responses and a clock that stands still, and
\* the scheduling the timeout of fetchStockPrices guarantees: an outstanding
\* round-trip settles.
FairResponses ==
    {[kind |-> "json", entries |-> <<>>, chunks |-> <<>>],
     [kind |-> "json", entries |-> <<Quote("AAPL", 150, "Apple Inc.")>>, chunks |-> <<WebChunk>>]}

Settle ==
    \E i \in 1..MaxInflight :
        \/ \E resp \in FairResponses : SettleOk(i, resp)
        \/ SettleFail(i)

FairNext ==
    \/ Mount
    \/ OpenSettings
    \/ CloseSettings
    \/ \E key \in ApiKeys : SaveApiKey(key)
    \/ \E raw \in RawSymbols, st \in StartTargets : AddStock(raw, st[1], st[2])
    \/ \E id \in 0..MaxIds : DeleteStock(id)
    \/ \E id \in 0..MaxIds : ToggleComplete(id)
    \/ ManualRefresh
    \/ \E i \in 1..MaxInflight, resp \in FairResponses : SettleOk(i, resp)
    \/ \E i \in 1..MaxInflight : SettleFail(i)

FairSpec == Init /\ [][FairNext]_vars /\ WF_vars(Settle)

\* the handlers of FairNext and the sort selector
OrderNext ==
    \/ FairNext
    \/ \E mode \in SortOptions : SetSortBy(mode)

OrderSpec == Init /\ [][OrderNext]_vars

\* The list handlers and round-trips that settle with each kind of price a
\* JSON response can hold for a symbol: none, a positive number, zero, a
\* negative number, and a string that spells a number
PriceResponses ==
    {[kind |-> "json", entries |-> <<>>, chunks |-> <<>>],
     [kind |-> "json", entries |-> <<Quote("AAPL", 150, "Apple Inc.")>>, chunks |-> <<WebChunk>>],
     [kind |-> "json", entries |-> <<Quote("AAPL", 0, "Apple Inc.")>>, chunks |-> <<>>],
     [kind |-> "json", entries |-> <<Quote("AAPL", 0 - 5, "Apple Inc.")>>, chunks |-> <<>>],
     [kind |-> "json",
      entries |-> <<[key |-> "AAPL", price |-> Str(150), name |-> "Apple Inc."]>>,
      chunks |-> <<>>]}

PriceNext ==
    \/ Mount
    \/ \E raw \in RawSymbols, st \in StartTargets : AddStock(raw, st[1], st[2])
    \/ \E id \in 0..MaxIds : DeleteStock(id)
    \/ \E id \in 0..MaxIds : ToggleComplete(id)
    \/ ManualRefresh
    \/ \E i \in 1..MaxInflight, resp \in PriceResponses : SettleOk(i, resp)
    \/ \E i \in 1..MaxInflight : SettleFail(i)

PriceSpec == Init /\ [][PriceNext]_vars

----------------------------------------------------------------------------
(* fetchStockPrices called directly *)

IngestInit ==
    /\ stocks = <<>>
    /\ apiKey = ""
    /\ isLoading = FALSE
    /\ error = NoError
    /\ isSettingsOpen = FALSE
    /\ mounted = FALSE
    /\ inflight = <<>>
    /\ now = Epoch
    /\ ticks = 0
    /\ nextId = 0
    /\ started = 0
    /\ last = Last("init", NoReq, <<>>, <<>>)
    /\ sortBy = ADDED_DESC
    /\ attempts = NoAttempts
    /\ fetch = FetchIdle

IngestNext ==
    \/ \E symbols \in SymbolLists : FetchCall(symbols)
    \/ \E resp \in Responses : FetchRespond(resp)
    \/ \E why \in RejectCauses : FetchReject(why)

IngestSpec == IngestInit /\ [][IngestNext]_vars

----------------------------------------------------------------------------
(* The application with backup import *)

HeldIds == {stocks[k].id : k \in DOMAIN stocks}

ImportNext ==
    \/ Mount
    \/ \E raw \in RawSymbols, st \in StartTargets : AddStock(raw, st[1], st[2])
    \/ \E id \in HeldIds : DeleteStock(id)
    \/ \E id \in HeldIds : ToggleComplete(id)
    \/ ManualRefresh
    \/ \E i \in 1..MaxInflight, resp \in FairResponses : SettleOk(i, resp)
    \/ \E i \in 1..MaxInflight : SettleFail(i)
    \/ \E file \in ImportFiles : ImportFile(file)

ImportSpec == Init /\ [][ImportNext]_vars

----------------------------------------------------------------------------
(* The sort selector over lists of trackers with varied prices *)

MaxSortLen == 3

\* startPrice, targetPrice and currentPrice of a tracker: no price yet, 10 %,
\* 90 %, a target equal to the start, and a price far below a narrow band
PriceProfiles ==
    {<<100, 200, Null>>,
     <<100, 200, Num(110)>>,
     <<100, 200, Num(190)>>,
     <<100, 100, Num(150)>>,
     <<200, 201, Num(100)>>}

ProfileLists == UNION {[1..n -> PriceProfiles] : n \in 0..MaxSortLen}

\* the trackers of profiles, newest first, each fetched unless it has no price
SortList(profiles) ==
    [i \in DOMAIN profiles |->
        [NewTracker(Len(profiles) - i, "AAPL", profiles[i][1], profiles[i][2]) EXCEPT
            !.currentPrice = profiles[i][3],
            !.lastUpdated = IF profiles[i][3] = Null THEN Null ELSE Num(Epoch)]]

SortInit ==
    /\ stocks \in {SortList(profiles) : profiles \in ProfileLists}
    /\ apiKey = "key1"
    /\ isLoading = FALSE
    /\ error = NoError
    /\ isSettingsOpen = FALSE
    /\ mounted = TRUE
    /\ inflight = <<>>
    /\ now = Epoch
    /\ ticks = 0
    /\ nextId = 0
    /\ started = 0
    /\ last = Last("init", NoReq, <<>>, <<>>)
    /\ sortBy = ADDED_DESC
    /\ attempts = NoAttempts
    /\ fetch = FetchIdle

SortNext == \E mode \in SortOptions : SetSortBy(mode)

SortSpec == SortInit /\ [][SortNext]_vars

----------------------------------------------------------------------------
(* Properties of the reconciliation merge *)

Settled == last.op = "settleOk" \/ last.op = "settleFail"

Requested(k) == InSeq(stocks[k].symbol, last.req.symbols)

\* the result of the last round-trip for the symbol of tracker k, if any
ResultOf(k) == FindResult(last.results, stocks[k].symbol)

Resolved(k) == ResultOf(k) # <<>> /\ ToNumber(ResultOf(k)[1].price) > 0

\* C1: after a round-trip settles successfully, every tracker whose symbol has
\* a result with price > 0 holds that price, the result's name when it is
\* non-empty and its previous name otherwise, lastUpdated = the settle time,
\* the result's source attribution, and no errorMessage.
C1_SuccessWritesResult ==
    last.op = "settleOk" =>
        \A k \in DOMAIN stocks :
            (Requested(k) /\ Resolved(k)) =>
                LET r == ResultOf(k)[1]
                IN /\ stocks[k].currentPrice = r.price
                   /\ stocks[k].companyName =
                        (IF r.companyName # Undefined /\ r.companyName # ""
                         THEN r.companyName
                         ELSE last.before[k].companyName)
                   /\ stocks[k].lastUpdated = Num(now)
                   /\ stocks[k].sourceUrl = r.sourceUrl
                   /\ stocks[k].sourceTitle = r.sourceTitle
                   /\ stocks[k].errorMessage = Undefined

\* a tracker that had a price and an error gets a different price, loses its
\* attribution and has no error
C1_Witness ==
    /\ last.op = "settleOk"
    /\ \E k \in DOMAIN stocks :
        /\ Requested(k) /\ Resolved(k)
        /\ last.before[k].errorMessage = MsgUpdateFailed
        /\ last.before[k].currentPrice = Num(150)
        /\ last.before[k].sourceUrl # Undefined
        /\ stocks[k].currentPrice = Num(160)
        /\ stocks[k].sourceUrl = Undefined
        /\ stocks[k].errorMessage = Undefined

\* C2: after a round-trip settles successfully, a requested tracker whose
\* result is missing or has a price that is not > 0 differs from its previous
\* value exactly in lastUpdated (the settle time) and errorMessage (the
\* generic not-found message).
C2_UnresolvedKeepsRest ==
    last.op = "settleOk" =>
        /\ Len(stocks) = Len(last.before)
        /\ \A k \in DOMAIN stocks :
            (Requested(k) /\ ~Resolved(k)) =>
                stocks[k] = [last.before[k] EXCEPT
                                !.lastUpdated = Num(now),
                                !.errorMessage = MsgNotFound]

\* a tracker with a known price and attribution meets an unresolved result
C2_Witness ==
    /\ last.op = "settleOk"
    /\ \E k \in DOMAIN stocks :
        /\ Requested(k) /\ ~Resolved(k)
        /\ last.before[k].currentPrice = Num(150)
        /\ last.before[k].errorMessage = Undefined
        /\ stocks[k].currentPrice = Num(150)
        /\ stocks[k].sourceUrl # Undefined
        /\ stocks[k].errorMessage = MsgNotFound

\* C3: after a round-trip fails as a whole, every tracker in the list whose
\* symbol was requested differs from its previous value exactly in
\* lastUpdated (the settle time) and errorMessage ("Update failed"), and
\* every other tracker is identical to its previous value.
C3_BatchFailureMarksRequested ==
    last.op = "settleFail" =>
        /\ Len(stocks) = Len(last.before)
        /\ \A k \in DOMAIN stocks :
            stocks[k] = IF Requested(k)
                        THEN [last.before[k] EXCEPT
                                 !.lastUpdated = Num(now),
                                 !.errorMessage = MsgUpdateFailed]
                        ELSE last.before[k]

\* a failed batch with a priced tracker inside and a tracker outside the request
C3_Witness ==
    /\ last.op = "settleFail"
    /\ error = ErrorUpdate
    /\ \E k, j \in DOMAIN stocks :
        /\ Requested(k)
        /\ stocks[k].currentPrice = Num(150)
        /\ stocks[k].errorMessage = MsgUpdateFailed
        /\ ~Requested(j)

\* C4: a settled refresh of a target subset leaves every tracker outside the
\* subset as it was, also when such a tracker has the symbol of a target.
C4_OutsideSubsetUnchanged ==
    Settled =>
        \A k \in DOMAIN stocks :
            ~InSeq(stocks[k].id, last.req.targets) => stocks[k] = last.before[k]

\* C5: a successful merge leaves every tracker whose symbol is not in the
\* deduplicated set of requested symbols unchanged in all fields.
C5_UnrequestedSymbolUnchanged ==
    last.op = "settleOk" =>
        /\ Len(stocks) = Len(last.before)
        /\ \A k \in DOMAIN stocks : ~Requested(k) => stocks[k] = last.before[k]

\* a merge passes over a tracker of another symbol while a second round-trip
\* is still outstanding
C5_Witness ==
    /\ last.op = "settleOk"
    /\ Len(inflight) > 0
    /\ \E k, j \in DOMAIN stocks :
        /\ ~Requested(k)
        /\ IsNum(stocks[k].lastUpdated)
        /\ stocks[k].lastUpdated # Num(now)
        /\ Requested(j) /\ Resolved(j)

----------------------------------------------------------------------------
(* Properties of the busy flag *)

\* C6: the busy flag is false whenever a round-trip has just settled, on
\* every outcome, and whenever no round-trip is outstanding; a busy flag
\* that is set is eventually cleared.
C6_BusyEventuallyCleared ==
    /\ [](Settled => ~isLoading)
    /\ [](Len(inflight) = 0 => ~isLoading)
    /\ (isLoading ~> ~isLoading)

\* the last outstanding round-trip failed as a whole and the flag is clear
C6_Witness ==
    /\ last.op = "settleFail"
    /\ started = MaxRequests
    /\ Len(inflight) = 0
    /\ ~isLoading

----------------------------------------------------------------------------
(* Properties of the automatic refresh *)

AutoRan == last.op = "mount" \/ last.op = "saveApiKey"

\* C7: the automatic refresh runs only with a non-empty credential, and it
\* selects a tracker iff the tracker is not completed and its lastUpdated is
\* absent or more than 3,600,000 ms before now.
C7_AutoSelectsStale ==
    AutoRan =>
        /\ apiKey = "" => last.req = NoReq
        /\ \A k \in DOMAIN stocks :
            InSeq(stocks[k].id, last.req.targets) <=>
                /\ apiKey # ""
                /\ ~stocks[k].isCompleted
                /\ \/ ~IsNum(stocks[k].lastUpdated)
                   \/ now - stocks[k].lastUpdated.v > 3600000

\* the effect selects a never-fetched tracker and passes over an active one
\* fetched exactly 3,600,000 ms ago
C7_Witness ==
    /\ last.op = "saveApiKey"
    /\ \E k, j \in DOMAIN stocks :
        /\ InSeq(stocks[k].id, last.req.targets)
        /\ stocks[k].lastUpdated = Null
        /\ ~InSeq(stocks[j].id, last.req.targets)
        /\ ~stocks[j].isCompleted
        /\ IsNum(stocks[j].lastUpdated)
        /\ now - stocks[j].lastUpdated.v = 3600000

\* the fields of a tracker that a fetch writes
Fetched(s) == <<s.currentPrice, s.errorMessage, s.lastUpdated>>

\* C8: a refresh request made with an empty credential starts no round-trip,
\* leaves the busy flag as it is, changes no tracker's price, error or
\* timestamp, sets the missing-key banner and opens the settings prompt.
C8_EmptyCredentialRefused ==
    [][(apiKey = "" /\ (last'.op = "manual" \/ last'.op = "add")) =>
        /\ inflight' = inflight
        /\ started' = started
        /\ isLoading' = isLoading
        /\ error' = MissingKey
        /\ isSettingsOpen'
        /\ \A k \in DOMAIN stocks :
            \E j \in DOMAIN stocks' :
                /\ stocks'[j].id = stocks[k].id
                /\ Fetched(stocks'[j]) = Fetched(stocks[k])
        /\ \A j \in DOMAIN stocks' :
            (\A k \in DOMAIN stocks : stocks[k].id # stocks'[j].id) =>
                Fetched(stocks'[j]) = <<Null, Undefined, Null>>]_vars

\* the refresh-all button was pressed without a credential
C8_Witness ==
    /\ last.op = "manual"
    /\ apiKey = ""
    /\ last.req = NoReq
    /\ error = MissingKey
    /\ isSettingsOpen
    /\ \E k \in DOMAIN stocks : ~stocks[k].isCompleted /\ IsNum(stocks[k].currentPrice)

----------------------------------------------------------------------------
(* Properties of fetchStockPrices *)

RemoteReturned == fetch.response.kind \in {"json", "text", "null"}

\* the response names sym nowhere, in either letter case
AbsentFromResponse(sym) ==
    \A i \in DOMAIN fetch.response.entries :
        ToUpperCase(fetch.response.entries[i].key) # ToUpperCase(sym)

\* C9: for a non-empty list of distinct symbols and any response the remote
\* call returns, fetchStockPrices returns one result per input symbol, in
\* input order, and a symbol absent from the response gets price 0 and its
\* own symbol as name.
C9_OneResultPerSymbol ==
    (RemoteReturned /\ Len(fetch.symbols) > 0 /\ IsDistinct(fetch.symbols)) =>
        /\ fetch.pc = "returned"
        /\ Len(fetch.results) = Len(fetch.symbols)
        /\ \A i \in DOMAIN fetch.symbols :
            /\ fetch.results[i].symbol = fetch.symbols[i]
            /\ AbsentFromResponse(fetch.symbols[i]) =>
                /\ fetch.results[i].price = Num(0)
                /\ fetch.results[i].companyName = fetch.symbols[i]

\* C10: fetchStockPrices called with an empty list returns an empty sequence
\* and starts neither the remote call nor the timeout timer.
C10_EmptyListNoCall ==
    (fetch.pc # "idle" /\ Len(fetch.symbols) = 0) =>
        /\ fetch.pc = "returned"
        /\ fetch.results = <<>>
        /\ fetch.apiCalls = 0
        /\ fetch.timers = 0

\* the call with the empty list has returned
C10_Witness ==
    /\ fetch.pc = "returned"
    /\ fetch.symbols = <<>>
    /\ fetch.results = <<>>

----------------------------------------------------------------------------
(* Properties of the backup import *)

Imported == last.op = "import"

\* every element of the file is an object with a non-empty id, a non-empty
\* symbol and a defined startPrice
WellFormed(file) ==
    /\ file.kind = "array"
    /\ \A i \in DOMAIN file.items :
        LET item == file.items[i]
        IN /\ item.shape = "object"
           /\ item.id # Undef /\ item.id # EmptyString
           /\ item.symbol # Undefined /\ item.symbol # ""
           /\ item.startPrice # Undef

\* C11: import is all-or-nothing. A file that does not parse, is not a list,
\* or holds an element without a non-empty id, a non-empty symbol or a
\* defined startPrice leaves the tracker list unchanged; any other file
\* replaces the list by the file's list, keeping none of the previous
\* trackers.
C11_ImportAllOrNothing ==
    Imported =>
        IF WellFormed(last.file)
        THEN /\ Len(stocks) = Len(last.file.items)
             /\ \A i \in DOMAIN stocks : Exported(stocks[i]) = last.file.items[i]
        ELSE stocks = last.before

\* a well-formed file replaced a list that held a tracker the file does not
C11_Witness ==
    /\ Imported
    /\ WellFormed(last.file)
    /\ Len(stocks) > 0
    /\ \E k \in DOMAIN last.before :
        \A i \in DOMAIN stocks : stocks[i].id # last.before[k].id

\* a file with a malformed element after a well-formed one was rejected
C11_RejectedWitness ==
    /\ Imported
    /\ last.file.kind = "array"
    /\ Len(last.file.items) > 1
    /\ ~WellFormed(last.file)
    /\ Len(stocks) > 0
    /\ stocks = last.before

----------------------------------------------------------------------------
(* Properties of the displayed order *)

HasPrice(s) == IsNum(s.currentPrice)

\* (currentPrice - startPrice) / (targetPrice - startPrice) * 100, and 0 when
\* the target equals the start
ProgressOf(s) ==
    IF s.targetPrice = s.startPrice THEN Fraction(0, 1)
    ELSE Fraction((s.currentPrice.v - s.startPrice) * 100, s.targetPrice - s.startPrice)

\* C12: in progress-descending mode, for every list of trackers, every
\* tracker without a resolved price is displayed after every tracker with
\* one, and the trackers with a price are displayed in non-increasing order
\* of progress.
C12_UnresolvedLast ==
    sortBy = PROGRESS_DESC =>
        \A i, j \in DOMAIN activeStocks :
            i < j =>
                /\ HasPrice(activeStocks[j]) => HasPrice(activeStocks[i])
                /\ (HasPrice(activeStocks[i]) /\ HasPrice(activeStocks[j])) =>
                       SignOfDifference(ProgressOf(activeStocks[i]),
                                        ProgressOf(activeStocks[j])) >= 0

----------------------------------------------------------------------------
(* Properties of the tracker list over time *)

HasError(s) == s.errorMessage # Undefined

\* C13: in every reachable state, after any sequence of add, delete,
\* toggle-complete, refresh start, refresh settle and import, every tracker
\* whose lastUpdated is set has a numeric currentPrice or an errorMessage.
C13_TimestampHasPriceOrError ==
    \A k \in DOMAIN stocks :
        IsNum(stocks[k].lastUpdated) =>
            IsNum(stocks[k].currentPrice) \/ HasError(stocks[k])

----------------------------------------------------------------------------
(* Properties of the busy flag and of the attempts *)

Outstanding == Len(inflight) > 0

\* C14: in every reachable state, if at least one refresh round-trip is
\* outstanding then isLoading is true, also when refreshes started by adding
\* a tracker, by the refresh-all button and by the automatic effect overlap
\* and settle in any order.
C14_BusyWhileOutstanding == Outstanding => isLoading

\* C15: in a state where no round-trip is outstanding, a tracker covered by
\* at least one settled fetch attempt has an errorMessage exactly when the
\* attempt for its symbol that settled last did not resolve a price > 0; a
\* successful attempt removes the errorMessage of an earlier one.
C15_ErrorIffLastAttemptFailed ==
    /\ ~Outstanding =>
        \A k \in DOMAIN stocks :
            attempts[stocks[k].id] # "none" =>
                (HasError(stocks[k]) <=> attempts[stocks[k].id] = "failed")
    /\ last.op = "settleOk" =>
        \A k \in DOMAIN stocks :
            (Requested(k) /\ Resolved(k)) => ~HasError(stocks[k])

\* nothing is outstanding and the attempt that settled last resolved a
\* tracker that an earlier attempt had left with an errorMessage
C15_Witness ==
    /\ ~Outstanding
    /\ last.op = "settleOk"
    /\ \E k \in DOMAIN stocks, j \in DOMAIN last.before :
        /\ last.before[j].id = stocks[k].id
        /\ HasError(last.before[j])
        /\ attempts[stocks[k].id] = "ok"
        /\ ~HasError(stocks[k])
    /\ \E k \in DOMAIN stocks :
        attempts[stocks[k].id] = "failed" /\ HasError(stocks[k])

\* a fetch attempt for s settled as a failure no more than an hour ago
FailedWithinHour(s) ==
    /\ HasError(s)
    /\ IsNum(s.lastUpdated)
    /\ now - s.lastUpdated.v <= 3600000

\* C16: once a fetch attempt for a non-completed tracker has settled as a
\* failure, no automatic staleness refresh sends that tracker's symbol to
\* ingestion until more than one hour has passed since its lastUpdated,
\* whatever the credential changes and the other trackers in the list.
C16_FailedSymbolNotResent ==
    AutoRan =>
        \A k \in DOMAIN stocks :
            (~stocks[k].isCompleted /\ FailedWithinHour(stocks[k])) =>
                ~InSeq(stocks[k].symbol, last.req.symbols)

\* C17: a tracker that is completed when a refresh result is merged has none
\* of its fields changed by an automatic refresh or by the refresh-all
\* button, also when it shares a symbol with an active tracker or was marked
\* completed while the round-trip was outstanding.
C17_CompletedUntouched ==
    (Settled /\ last.req.kind \in {"auto", "manual"}) =>
        \A k \in DOMAIN stocks :
            last.before[k].isCompleted => stocks[k] = last.before[k]

\* the number of round-trips that have settled
SettledCount == started - Len(inflight)

\* C18: every started round-trip eventually settles (fetchStockPrices races
\* the remote call against a timer), and when it has settled every tracker
\* still in the list whose symbol was requested has lastUpdated set to the
\* settle time, whether the symbol resolved, did not resolve, or the batch
\* failed.
C18_SettlesAndStamps ==
    /\ Outstanding ~> ~Outstanding
    /\ [](Settled =>
            \A k \in DOMAIN stocks : Requested(k) => stocks[k].lastUpdated = Num(now))

\* two round-trips have settled, the last one as a batch failure, and a
\* tracker that had never been fetched carries the settle time
C18_Witness ==
    /\ last.op = "settleFail"
    /\ ~Outstanding
    /\ SettledCount > 1
    /\ \E k \in DOMAIN stocks :
        /\ Requested(k)
        /\ last.before[k].lastUpdated = Null
        /\ stocks[k].lastUpdated = Num(now)

----------------------------------------------------------------------------
(* Properties of the stored order and of the fields the user entered *)

\* ids are handed out in increasing order, so a list is newest-added-first
\* when its ids decrease
NewestFirst(list) ==
    \A i, j \in DOMAIN list : i < j => list[i].id > list[j].id

\* C19: adding a tracker places it at the front of the stored list, and no
\* merge, toggle-complete, delete or sort changes the relative stored order
\* of the other trackers; so, without import, the stored list and the
\* insertion-order display of the active and of the completed group are
\* newest-added-first.
C19_NewestFirst ==
    /\ last.op = "add" => (stocks[1].id = nextId /\ Tail(stocks) = last.before)
    /\ NewestFirst(stocks)
    /\ sortBy = ADDED_DESC =>
        /\ NewestFirst(activeStocks)
        /\ NewestFirst(completedStocks)
        /\ Len(activeStocks) + Len(completedStocks) = Len(stocks)

\* after a delete between two adds, a merge and a change of the sort mode
\* back to insertion order, two active trackers are displayed newest first,
\* the older one with a price and the newer one without
C19_Witness ==
    /\ last.op = "setSortBy"
    /\ sortBy = ADDED_DESC
    /\ Len(activeStocks) > 1
    /\ activeStocks[1].id > activeStocks[2].id + 1
    /\ activeStocks[1].currentPrice = Null
    /\ IsNum(activeStocks[2].currentPrice)

\* the fields of each tracker that the user entered, with its id
Entered(list) ==
    [k \in DOMAIN list |->
        <<list[k].id, list[k].symbol, list[k].startPrice, list[k].targetPrice>>]

\* C20: after creation no operation other than delete (and the wholesale
\* import) changes a tracker's id, symbol, startPrice or targetPrice, and a
\* newly created tracker has an upper-cased symbol, no currentPrice and no
\* lastUpdated.
C20_EnteredFieldsFixed ==
    /\ [][IF last'.op = "add" THEN Entered(Tail(stocks')) = Entered(stocks)
          ELSE IF last'.op = "delete"
          THEN \E i \in DOMAIN stocks : Entered(stocks') = RemoveAt(Entered(stocks), i)
          ELSE Entered(stocks') = Entered(stocks)]_vars
    /\ [](last.op = "add" =>
            /\ stocks[1].symbol = ToUpperCase(stocks[1].symbol)
            /\ stocks[1].symbol \in Symbols
            /\ stocks[1].currentPrice = Null
            /\ stocks[1].lastUpdated = Null)

\* a tracker was created next to one that a failed attempt had marked
C20_Witness ==
    /\ last.op = "add"
    /\ Len(stocks) > 1
    /\ stocks[1].symbol = "AAPL"
    /\ stocks[1].currentPrice = Null
    /\ HasError(stocks[2])
    /\ Entered(Tail(stocks)) = Entered(last.before)

----------------------------------------------------------------------------
(* Properties of edits made while a round-trip is outstanding *)

Flags(list) == [k \in DOMAIN list |-> <<list[k].id, list[k].isCompleted>>]

\* C21: edits made while a round-trip is outstanding survive its merge. The
\* merge works on the list as it is when the round-trip settles: it creates
\* no tracker (a deleted one stays deleted), drops none (an added one stays)
\* and keeps every isCompleted flag.
C21_EditsSurviveMerge ==
    Settled => Flags(stocks) = Flags(last.before)

\* a round-trip settled after one of its targets had been deleted, another
\* marked completed and a new tracker added
C21_Witness ==
    /\ Settled
    /\ \E id \in TrackerIds : InSeq(id, last.req.targets) /\ ~HasId(id)
    /\ \E k \in DOMAIN stocks :
        InSeq(stocks[k].id, last.req.targets) /\ stocks[k].isCompleted
    /\ \E k \in DOMAIN stocks :
        \A i \in DOMAIN last.req.targets : stocks[k].id > last.req.targets[i]

----------------------------------------------------------------------------
(* Properties of the stored price *)

\* C22: in every state reachable by add, delete, toggle-complete and refresh
\* start and settle, without import, each tracker's currentPrice is absent or
\* a number greater than 0: a price of 0 or below is never written and no
\* failure path resets a price.
C22_PriceAbsentOrPositive ==
    /\ \A k \in DOMAIN stocks :
        \/ stocks[k].currentPrice = Null
        \/ IsNum(stocks[k].currentPrice) /\ stocks[k].currentPrice.v > 0
    /\ Settled =>
        \A k \in DOMAIN stocks :
            last.before[k].currentPrice # Null =>
                stocks[k].currentPrice # Null

====
